---- MODULE Spec2Model ----
(***************************************************************************)
(* Model of the two closed-loop controllers of Lab5015_utils.py:           *)
(*   sipmPower  (Keithley2231A, holds the SiPM bias power at a target)     *)
(*   sipmTemp   (Keithley2450,  holds the SiPM temperature at a target)    *)
(*                                                                         *)
(* Numbers are scaled integers, exact for every input the model draws.     *)
(* With L the least common multiple of 1..MaxDt (the elapsed times a PID   *)
(* evaluation can see, so that its division by dt is exact):               *)
(*   sipmPower: current in 0.1 A, measured voltage in 0.1 V, power in mW,  *)
(*              command voltage and PID output in 1/PowerVolt V,           *)
(*              PowerVolt = 2000*L                                         *)
(*   sipmTemp : temperature in degrees C, command voltage and PID output   *)
(*              in 1/TempVolt V, TempVolt = 4*L                            *)
(*   time in seconds; an elapsed time of 0 stands for an interval shorter  *)
(*   than the PID's sample time (0.01 s).                                  *)
(* Power states are the integers the instrument reports: 0 OFF, 1 RUNNING. *)
(* A reading can also be the float not-a-number, NaN: arithmetic on it     *)
(* gives NaN and every comparison with it is false, as in Python.          *)
(* Spec draws finite readings only, SpecAny draws NaN readings as well.    *)
(*                                                                         *)
(* A power transition that acts is two steps: the commands up to the       *)
(* settle delay (time.sleep(2)), then the re-read and what follows it.     *)
(* Between the two the call is in progress (pc.at = "sleep") and can be    *)
(* ended by a KeyboardInterrupt.                                           *)
(***************************************************************************)
EXTENDS Integers, Sequences, FiniteSets

VARIABLES ctl, dev, calls, last_op, last_report, steps, pc, elapsed

vars == <<ctl, dev, calls, last_op, last_report, steps, pc, elapsed>>

\* ctl         the controller object (its attributes), [cls |-> "none"] while
\*             no controller exists
\* dev         the instrument: output stage state and last commanded voltage
\* calls       the instrument calls issued so far by the most recent
\*             operation, in order
\* last_op     the most recent operation: its name, the class it was called on,
\*             the target passed to a constructor, and how it ended
\*             ("running" while it is in its settle delay)
\* last_report the value most recently returned by the instrument's check_state
\* steps       number of compute_voltage calls made so far
\* pc          where the call in progress stands, with its arguments
\* elapsed     seconds since the PID's last evaluation (since its
\*             construction before the first one)

----------------------------------------------------------------------------
\* Bounds of the model

\* compute_voltage calls per session
MaxSteps == 5

\* longest time between two PID evaluations, in seconds
MaxDt == 6

\* targets offered to the constructors (mW / degrees C), inside, on and
\* outside the safety range
PowerTargets == {-1, 0, 432, 2000, 2001}
TempTargets == {-36, -35, 25, 40, 41}

\* measurement inputs: (I, V) pairs of the SiPM supply, sensed temperature
IVSet == {<<2, 20>>, <<10, 50>>}
TempSet == {-40, 30}

\* seconds the caller lets pass before a compute_voltage call
\* (0: less than the PID sample time)
WaitSet == {0, 1}

\* seconds of a settle delay that have passed when it is interrupted
PartSet == {0, 1}

\* output voltage the instrument holds before the controller is built
DevV0 == {0, 4}

\* float('nan'), a value no finite computation of the model yields
NaN == 0 - 1000000000

\* measurement inputs that include a not-a-number reading
IVSetAny == IVSet \cup {<<NaN, 20>>}
TempSetAny == TempSet \cup {NaN}

RECURSIVE Gcd(_, _)
Gcd(a, b) == IF b = 0 THEN a ELSE Gcd(b, a % b)

RECURSIVE LcmUpTo(_)
LcmUpTo(n) == IF n <= 1 THEN 1 ELSE (LcmUpTo(n - 1) * n) \div Gcd(LcmUpTo(n - 1), n)

L == LcmUpTo(MaxDt)

\* units of command voltage per volt
PowerVolt == 2000 * L
TempVolt == 4 * L

----------------------------------------------------------------------------
\* Instrument adapters (Keithley2231A / Keithley2450): set_V, set_state,
\* check_state, meas_IV.  obeys says whether the output stage follows the
\* set_state command.

Call(op, arg) == [op |-> op, arg |-> arg]

set_V(d, value) == [d EXCEPT !.V = value]

set_state(d, value, obeys) == [d EXCEPT !.state = IF obeys THEN value ELSE @]

check_state(d) == d.state

----------------------------------------------------------------------------
\* Python float arithmetic and comparison on the scaled numbers

IsNaN(a) == a = NaN

fAdd(a, b) == IF IsNaN(a) \/ IsNaN(b) THEN NaN ELSE a + b
fSub(a, b) == IF IsNaN(a) \/ IsNaN(b) THEN NaN ELSE a - b
fMul(a, b) == IF IsNaN(a) \/ IsNaN(b) THEN NaN ELSE a * b
fDiv(a, b) == IF IsNaN(a) \/ IsNaN(b) THEN NaN ELSE a \div b
fLt(a, b) == ~IsNaN(a) /\ ~IsNaN(b) /\ a < b
fGt(a, b) == ~IsNaN(a) /\ ~IsNaN(b) /\ a > b

\* max([a, b]) and min([a, b]): the first item unless a later one is
\* greater (smaller)
pyMax(a, b) == IF fGt(b, a) THEN b ELSE a
pyMin(a, b) == IF fLt(b, a) THEN b ELSE a

----------------------------------------------------------------------------
\* simple_pid.PID as used by the controllers

Clamp(x, lo, hi) == IF fGt(x, hi) THEN hi ELSE IF fLt(x, lo) THEN lo ELSE x

\* pid(input) evaluated dt seconds after the previous evaluation; since is
\* the time since the last evaluation afterwards
PID_call(pid, input, dt) ==
    IF pid.fed /\ dt < 1
      THEN [out |-> pid.last_output, pid |-> pid, since |-> dt]
      ELSE LET error == fSub(pid.setpoint, input)
               d_input == IF pid.fed THEN fSub(input, pid.last_input) ELSE fSub(input, input)
               p == fMul(pid.Kp, error)
               i == Clamp(fAdd(pid.integral, fMul(fMul(pid.Ki, error), dt)),
                          pid.lo, pid.hi)
               d == IF d_input = 0 THEN 0
                    ELSE fDiv(fMul(0 - pid.Kd, d_input), dt)
               out == Clamp(fAdd(fAdd(p, i), d), pid.lo, pid.hi)
           IN  [out |-> out,
                pid |-> [pid EXCEPT !.fed = TRUE, !.last_input = input,
                                    !.last_output = out, !.integral = i,
                                    !.p = p, !.d = d],
                since |-> 0]

----------------------------------------------------------------------------
\* sipmPower

sipmPower_min_voltage == 0 * PowerVolt
sipmPower_max_voltage == 2 * PowerVolt
min_pow_safe == 0
max_pow_safe == 2000

\* PID(0.5, 0., 1., setpoint=target); output_limits = (-0.5, 0.5)
\* gains in command units per mW (and per mW/s)
sipmPower_Kp == (5 * PowerVolt) \div 10000
sipmPower_Ki == 0
sipmPower_Kd == PowerVolt \div 1000
sipmPower_out_lo == 0 - (5 * PowerVolt) \div 10
sipmPower_out_hi == (5 * PowerVolt) \div 10

sipmPower_pid(target) ==
    [Kp |-> sipmPower_Kp, Ki |-> sipmPower_Ki, Kd |-> sipmPower_Kd,
     setpoint |-> target, lo |-> sipmPower_out_lo, hi |-> sipmPower_out_hi,
     fed |-> FALSE, last_input |-> 0, last_output |-> 0, integral |-> 0,
     p |-> 0, d |-> 0]

sipmPower_range_ok(target) == ~(target < min_pow_safe \/ target > max_pow_safe)

\* faulty variant: assumes the output is OFF instead of reading the state
sipmPower_init_assume_off(target, d) ==
    IF ~sipmPower_range_ok(target)
      THEN [raised |-> TRUE, ctl |-> [cls |-> "none"], dev |-> d, calls |-> <<>>]
      ELSE [raised |-> FALSE,
            ctl |-> [cls |-> "sipmPower", target |-> target,
                     state |-> 0, I |-> 0, V |-> 0, P |-> 0,
                     new_voltage |-> 0, pid |-> sipmPower_pid(target)],
            dev |-> d,
            calls |-> <<Call("check_state", check_state(d))>>]

sipmPower_init(target, d) ==
    IF ~sipmPower_range_ok(target)
      THEN [raised |-> TRUE, ctl |-> [cls |-> "none"], dev |-> d, calls |-> <<>>]
      ELSE [raised |-> FALSE,
            ctl |-> [cls |-> "sipmPower", target |-> target,
                     state |-> check_state(d), I |-> 0, V |-> 0, P |-> 0,
                     new_voltage |-> 0, pid |-> sipmPower_pid(target)],
            dev |-> d,
            calls |-> <<Call("check_state", check_state(d))>>]

\* faulty variant: runs the power-on sequence whatever the state
sipmPower_power_on_begin_unguarded(c, d, obeys) ==
    [entered |-> TRUE,
     dev |-> set_state(set_V(d, 0), 1, obeys),
     calls |-> <<Call("set_V", 0), Call("set_state", 1)>>]

\* power_on up to the settle delay: entered says whether the sequence runs
sipmPower_power_on_begin(c, d, obeys) ==
    IF c.state = 0
      THEN [entered |-> TRUE,
            dev |-> set_state(set_V(d, 0), 1, obeys),
            calls |-> <<Call("set_V", 0), Call("set_state", 1)>>]
      ELSE [entered |-> FALSE, dev |-> d, calls |-> <<>>]

\* power_on from the settle delay on
sipmPower_power_on_end(c, d) ==
    LET st == check_state(d)
    IN  [ctl |-> [c EXCEPT !.state = st],
         calls |-> <<Call("sleep", 2), Call("check_state", st)>>,
         raised |-> (st = 0)]

\* faulty variant: switches the output off before zeroing the voltage
sipmPower_power_off_begin_state_first(c, d, obeys) ==
    IF c.state = 1
      THEN [entered |-> TRUE,
            dev |-> set_V(set_state(d, 0, obeys), 0),
            calls |-> <<Call("set_state", 0), Call("set_V", 0)>>]
      ELSE [entered |-> FALSE, dev |-> d, calls |-> <<>>]

sipmPower_power_off_begin(c, d, obeys) ==
    IF c.state = 1
      THEN [entered |-> TRUE,
            dev |-> set_state(set_V(d, 0), 0, obeys),
            calls |-> <<Call("set_V", 0), Call("set_state", 0)>>]
      ELSE [entered |-> FALSE, dev |-> d, calls |-> <<>>]

sipmPower_power_off_end(c, d) ==
    LET st == check_state(d)
    IN  [ctl |-> [c EXCEPT !.state = st],
         calls |-> <<Call("sleep", 2), Call("check_state", st)>>,
         raised |-> (st # 0)]

\* faulty variant: adds the cable loss instead of subtracting it
sipmPower_P_plus(I, V) == fAdd(fMul(10, fMul(I, V)), fMul(12, fMul(I, I)))

\* P = I*V - I*I*1.2, in mW for I in 0.1 A and V in 0.1 V
sipmPower_P(I, V) == fSub(fMul(10, fMul(I, V)), fMul(12, fMul(I, I)))

sipmPower_safety(v) ==
    pyMin(pyMax(v, sipmPower_min_voltage), sipmPower_max_voltage)

\* compute_voltage after its power_on() has returned
sipmPower_step(c, d, I, V, dt) ==
    LET P == sipmPower_P(I, V)
        r == PID_call(c.pid, P, dt)
        nv == sipmPower_safety(fAdd(c.new_voltage, r.out))
    IN  [ctl |-> [c EXCEPT !.I = I, !.V = V, !.P = P,
                           !.pid = r.pid, !.new_voltage = nv],
         dev |-> set_V(d, nv),
         calls |-> <<Call("set_V", nv)>>,
         raised |-> FALSE,
         since |-> r.since]

\* faulty variant: goes on with the step when the power-on failed
sipmPower_compute_voltage_end_unchecked(c, d, I, V, dt) ==
    LET on == sipmPower_power_on_end(c, d)
        s == sipmPower_step(on.ctl, d, I, V, dt)
    IN  [s EXCEPT !.calls = on.calls \o @]

\* compute_voltage from the settle delay of its power_on() on
sipmPower_compute_voltage_end(c, d, I, V, dt) ==
    LET on == sipmPower_power_on_end(c, d)
    IN  IF on.raised
          THEN [ctl |-> on.ctl, dev |-> d, calls |-> on.calls,
                raised |-> TRUE, since |-> dt]
          ELSE LET s == sipmPower_step(on.ctl, d, I, V, dt)
               IN  [s EXCEPT !.calls = on.calls \o @]

----------------------------------------------------------------------------
\* sipmTemp

sipmTemp_min_voltage == 0 - 5 * TempVolt
sipmTemp_max_voltage == 5 * TempVolt
min_temp_safe == 0 - 35
max_temp_safe == 40

\* PID(-0.25, 0., -1., setpoint=target); output_limits = (-2., 2.)
\* gains in command units per degree C (and per degree C/s)
sipmTemp_Kp == 0 - (25 * TempVolt) \div 100
sipmTemp_Ki == 0
sipmTemp_Kd == 0 - TempVolt
sipmTemp_out_lo == 0 - 2 * TempVolt
sipmTemp_out_hi == 2 * TempVolt

\* faulty variant: positive proportional gain
sipmTemp_pid_positive(target) ==
    [Kp |-> (25 * TempVolt) \div 100, Ki |-> sipmTemp_Ki, Kd |-> sipmTemp_Kd,
     setpoint |-> target, lo |-> sipmTemp_out_lo, hi |-> sipmTemp_out_hi,
     fed |-> FALSE, last_input |-> 0, last_output |-> 0, integral |-> 0,
     p |-> 0, d |-> 0]

sipmTemp_pid(target) ==
    [Kp |-> sipmTemp_Kp, Ki |-> sipmTemp_Ki, Kd |-> sipmTemp_Kd,
     setpoint |-> target, lo |-> sipmTemp_out_lo, hi |-> sipmTemp_out_hi,
     fed |-> FALSE, last_input |-> 0, last_output |-> 0, integral |-> 0,
     p |-> 0, d |-> 0]

\* faulty variant: rejects the bounds of the safety range
sipmTemp_range_ok_strict(target) ==
    ~(target <= min_temp_safe \/ target >= max_temp_safe)

sipmTemp_range_ok(target) == ~(target < min_temp_safe \/ target > max_temp_safe)

sipmTemp_init(target, d) ==
    IF ~sipmTemp_range_ok(target)
      THEN [raised |-> TRUE, ctl |-> [cls |-> "none"], dev |-> d, calls |-> <<>>]
      ELSE [raised |-> FALSE,
            ctl |-> [cls |-> "sipmTemp", target |-> target,
                     state |-> check_state(d), sipm_temp |-> 25, I |-> 0, V |-> 0,
                     new_voltage |-> 0, pid |-> sipmTemp_pid(target)],
            dev |-> d,
            calls |-> <<Call("check_state", check_state(d))>>]

sipmTemp_power_on_begin(c, d, obeys) ==
    IF c.state = 0
      THEN [entered |-> TRUE,
            dev |-> set_state(set_V(d, 0), 1, obeys),
            calls |-> <<Call("set_V", 0), Call("set_state", 1)>>]
      ELSE [entered |-> FALSE, dev |-> d, calls |-> <<>>]

sipmTemp_power_on_end(c, d) ==
    LET st == check_state(d)
    IN  [ctl |-> [c EXCEPT !.state = st],
         calls |-> <<Call("sleep", 2), Call("check_state", st)>>,
         raised |-> (st = 0)]

sipmTemp_power_off_begin(c, d, obeys) ==
    IF c.state = 1
      THEN [entered |-> TRUE,
            dev |-> set_state(set_V(d, 0), 0, obeys),
            calls |-> <<Call("set_V", 0), Call("set_state", 0)>>]
      ELSE [entered |-> FALSE, dev |-> d, calls |-> <<>>]

\* faulty variant: does not verify the re-read state
sipmTemp_power_off_end_unchecked(c, d) ==
    LET st == check_state(d)
    IN  [ctl |-> [c EXCEPT !.state = st],
         calls |-> <<Call("sleep", 2), Call("check_state", st)>>,
         raised |-> FALSE]

\* faulty variant: also resets the running command value
sipmTemp_power_off_end_reset(c, d) ==
    LET st == check_state(d)
    IN  [ctl |-> [c EXCEPT !.state = st, !.new_voltage = 0],
         calls |-> <<Call("sleep", 2), Call("check_state", st)>>,
         raised |-> (st # 0)]

sipmTemp_power_off_end(c, d) ==
    LET st == check_state(d)
    IN  [ctl |-> [c EXCEPT !.state = st],
         calls |-> <<Call("sleep", 2), Call("check_state", st)>>,
         raised |-> (st # 0)]

sipmTemp_safety(v) ==
    pyMin(pyMax(v, sipmTemp_min_voltage), sipmTemp_max_voltage)

\* compute_voltage after its power_on() has returned
sipmTemp_step(c, d, sipm_temp, dt) ==
    LET r == PID_call(c.pid, sipm_temp, dt)
        nv == sipmTemp_safety(fAdd(c.new_voltage, r.out))
    IN  [ctl |-> [c EXCEPT !.sipm_temp = sipm_temp,
                           !.pid = r.pid, !.new_voltage = nv],
         dev |-> set_V(d, nv),
         calls |-> <<Call("meas_IV", 0), Call("set_V", nv)>>,
         raised |-> FALSE,
         since |-> r.since]

\* compute_voltage from the settle delay of its power_on() on
sipmTemp_compute_voltage_end(c, d, sipm_temp, dt) ==
    LET on == sipmTemp_power_on_end(c, d)
    IN  IF on.raised
          THEN [ctl |-> on.ctl, dev |-> d, calls |-> on.calls,
                raised |-> TRUE, since |-> dt]
          ELSE LET s == sipmTemp_step(on.ctl, d, sipm_temp, dt)
               IN  [s EXCEPT !.calls = on.calls \o @]

----------------------------------------------------------------------------
\* The state machine

Outcome(name, cls, arg, result) ==
    [name |-> name, cls |-> cls, arg |-> arg, result |-> result]

Result(raised) == IF raised THEN "ValueError" ELSE "ok"

Idle == [at |-> "idle", name |-> "none", x |-> 0, y |-> 0]

Sleeping(name, x, y) == [at |-> "sleep", name |-> name, x |-> x, y |-> y]

\* the last check_state value in a call log, else the previous report
Reported(cs, prev) ==
    LET idx == {k \in 1..Len(cs) : cs[k].op = "check_state"}
    IN  IF idx = {} THEN prev
        ELSE cs[CHOOSE k \in idx : \A j \in idx : j <= k].arg

Init ==
    /\ ctl = [cls |-> "none"]
    /\ dev \in [state : {0, 1}, V : DevV0]
    /\ calls = <<>>
    /\ last_op = Outcome("none", "none", 0, "ok")
    /\ last_report = 0
    /\ steps = 0
    /\ pc = Idle
    /\ elapsed = 0

\* a constructor call
Construct(cls, target, r) ==
    /\ ctl' = r.ctl
    /\ dev' = r.dev
    /\ calls' = r.calls
    /\ last_op' = Outcome("__init__", cls, target, Result(r.raised))
    /\ last_report' = Reported(r.calls, last_report)
    /\ UNCHANGED <<steps, pc, elapsed>>

ConstructPower ==
    /\ ctl.cls = "none"
    /\ \E target \in PowerTargets :
          Construct("sipmPower", target, sipmPower_init(target, dev))

ConstructTemp ==
    /\ ctl.cls = "none"
    /\ \E target \in TempTargets :
          Construct("sipmTemp", target, sipmTemp_init(target, dev))

\* a call of power_on / power_off, or the power_on() of a compute_voltage,
\* up to its settle delay; b is the result of the ..._begin operator.
\* A call whose guard is false returns at once.
Begin(name, b, x, y) ==
    /\ b.entered
    /\ elapsed + 2 <= MaxDt
    /\ dev' = b.dev
    /\ calls' = b.calls
    /\ pc' = Sleeping(name, x, y)
    /\ last_op' = Outcome(name, ctl.cls, 0, "running")
    /\ UNCHANGED <<ctl, last_report>>

Skip(name, b) ==
    /\ ~b.entered
    /\ calls' = b.calls
    /\ last_op' = Outcome(name, ctl.cls, 0, "ok")
    /\ UNCHANGED <<ctl, dev, last_report, pc>>

\* the rest of a call after the settle delay; e is the result of the
\* ..._end operator
End(name, e) ==
    /\ ctl' = e.ctl
    /\ calls' = calls \o e.calls
    /\ last_op' = Outcome(name, ctl.cls, 0, Result(e.raised))
    /\ last_report' = Reported(e.calls, last_report)
    /\ pc' = Idle

PowerOnPower ==
    /\ ctl.cls = "sipmPower" /\ pc.at = "idle"
    /\ \E obeys \in BOOLEAN :
          LET b == sipmPower_power_on_begin(ctl, dev, obeys)
          IN  Begin("power_on", b, 0, 0) \/ Skip("power_on", b)
    /\ UNCHANGED <<steps, elapsed>>

PowerOnPowerSettle ==
    /\ ctl.cls = "sipmPower" /\ pc.at = "sleep" /\ pc.name = "power_on"
    /\ End("power_on", sipmPower_power_on_end(ctl, dev))
    /\ elapsed' = elapsed + 2
    /\ UNCHANGED <<dev, steps>>

PowerOffPower ==
    /\ ctl.cls = "sipmPower" /\ pc.at = "idle"
    /\ \E obeys \in BOOLEAN :
          LET b == sipmPower_power_off_begin(ctl, dev, obeys)
          IN  Begin("power_off", b, 0, 0) \/ Skip("power_off", b)
    /\ UNCHANGED <<steps, elapsed>>

PowerOffPowerSettle ==
    /\ ctl.cls = "sipmPower" /\ pc.at = "sleep" /\ pc.name = "power_off"
    /\ End("power_off", sipmPower_power_off_end(ctl, dev))
    /\ elapsed' = elapsed + 2
    /\ UNCHANGED <<dev, steps>>

ComputeVoltagePowerOn(readings) ==
    /\ ctl.cls = "sipmPower" /\ pc.at = "idle"
    /\ steps < MaxSteps
    /\ \E iv \in readings, wait \in WaitSet, obeys \in BOOLEAN :
          LET I == iv[1]
              V == iv[2]
              b == sipmPower_power_on_begin(ctl, dev, obeys)
              now == elapsed + wait
          IN  /\ now <= MaxDt
              /\ \/ /\ Begin("compute_voltage", b, I, V)
                    /\ now + 2 <= MaxDt
                    /\ elapsed' = now
                 \/ /\ ~b.entered
                    /\ LET s == sipmPower_step(ctl, dev, I, V, now)
                       IN  /\ ctl' = s.ctl
                           /\ dev' = s.dev
                           /\ calls' = s.calls
                           /\ elapsed' = s.since
                           /\ last_op' = Outcome("compute_voltage", ctl.cls, 0, "ok")
                    /\ UNCHANGED <<last_report, pc>>
    /\ steps' = steps + 1

ComputeVoltagePower == ComputeVoltagePowerOn(IVSet)

ComputeVoltagePowerAny == ComputeVoltagePowerOn(IVSetAny)

ComputeVoltagePowerSettle ==
    /\ ctl.cls = "sipmPower" /\ pc.at = "sleep" /\ pc.name = "compute_voltage"
    /\ LET e == sipmPower_compute_voltage_end(ctl, dev, pc.x, pc.y, elapsed + 2)
       IN  /\ End("compute_voltage", e)
           /\ dev' = e.dev
           /\ elapsed' = e.since
    /\ UNCHANGED steps

PowerOnTemp ==
    /\ ctl.cls = "sipmTemp" /\ pc.at = "idle"
    /\ \E obeys \in BOOLEAN :
          LET b == sipmTemp_power_on_begin(ctl, dev, obeys)
          IN  Begin("power_on", b, 0, 0) \/ Skip("power_on", b)
    /\ UNCHANGED <<steps, elapsed>>

PowerOnTempSettle ==
    /\ ctl.cls = "sipmTemp" /\ pc.at = "sleep" /\ pc.name = "power_on"
    /\ End("power_on", sipmTemp_power_on_end(ctl, dev))
    /\ elapsed' = elapsed + 2
    /\ UNCHANGED <<dev, steps>>

PowerOffTemp ==
    /\ ctl.cls = "sipmTemp" /\ pc.at = "idle"
    /\ \E obeys \in BOOLEAN :
          LET b == sipmTemp_power_off_begin(ctl, dev, obeys)
          IN  Begin("power_off", b, 0, 0) \/ Skip("power_off", b)
    /\ UNCHANGED <<steps, elapsed>>

PowerOffTempSettle ==
    /\ ctl.cls = "sipmTemp" /\ pc.at = "sleep" /\ pc.name = "power_off"
    /\ End("power_off", sipmTemp_power_off_end(ctl, dev))
    /\ elapsed' = elapsed + 2
    /\ UNCHANGED <<dev, steps>>

ComputeVoltageTempOn(readings) ==
    /\ ctl.cls = "sipmTemp" /\ pc.at = "idle"
    /\ steps < MaxSteps
    /\ \E t \in readings, wait \in WaitSet, obeys \in BOOLEAN :
          LET b == sipmTemp_power_on_begin(ctl, dev, obeys)
              now == elapsed + wait
          IN  /\ now <= MaxDt
              /\ \/ /\ Begin("compute_voltage", b, t, 0)
                    /\ now + 2 <= MaxDt
                    /\ elapsed' = now
                 \/ /\ ~b.entered
                    /\ LET s == sipmTemp_step(ctl, dev, t, now)
                       IN  /\ ctl' = s.ctl
                           /\ dev' = s.dev
                           /\ calls' = s.calls
                           /\ elapsed' = s.since
                           /\ last_op' = Outcome("compute_voltage", ctl.cls, 0, "ok")
                    /\ UNCHANGED <<last_report, pc>>
    /\ steps' = steps + 1

ComputeVoltageTemp == ComputeVoltageTempOn(TempSet)

ComputeVoltageTempAny == ComputeVoltageTempOn(TempSetAny)

ComputeVoltageTempSettle ==
    /\ ctl.cls = "sipmTemp" /\ pc.at = "sleep" /\ pc.name = "compute_voltage"
    /\ LET e == sipmTemp_compute_voltage_end(ctl, dev, pc.x, elapsed + 2)
       IN  /\ End("compute_voltage", e)
           /\ dev' = e.dev
           /\ elapsed' = e.since
    /\ UNCHANGED steps

\* a KeyboardInterrupt raised in the settle delay ends the call there
Interrupt ==
    /\ pc.at = "sleep"
    /\ \E part \in PartSet :
          /\ elapsed + part <= MaxDt
          /\ elapsed' = elapsed + part
    /\ pc' = Idle
    /\ last_op' = [last_op EXCEPT !.result = "KeyboardInterrupt"]
    /\ UNCHANGED <<ctl, dev, calls, last_report, steps>>

Next ==
    \/ ConstructPower
    \/ ConstructTemp
    \/ PowerOnPower
    \/ PowerOnPowerSettle
    \/ PowerOffPower
    \/ PowerOffPowerSettle
    \/ ComputeVoltagePower
    \/ ComputeVoltagePowerSettle
    \/ PowerOnTemp
    \/ PowerOnTempSettle
    \/ PowerOffTemp
    \/ PowerOffTempSettle
    \/ ComputeVoltageTemp
    \/ ComputeVoltageTempSettle
    \/ Interrupt

Spec == Init /\ [][Next]_vars

\* the same program fed with readings that can be not-a-number
NextAny ==
    \/ ConstructPower
    \/ ConstructTemp
    \/ PowerOnPower
    \/ PowerOnPowerSettle
    \/ PowerOffPower
    \/ PowerOffPowerSettle
    \/ ComputeVoltagePowerAny
    \/ ComputeVoltagePowerSettle
    \/ PowerOnTemp
    \/ PowerOnTempSettle
    \/ PowerOffTemp
    \/ PowerOffTempSettle
    \/ ComputeVoltageTempAny
    \/ ComputeVoltageTempSettle
    \/ Interrupt

SpecAny == Init /\ [][NextAny]_vars

TypeOK ==
    /\ ctl.cls \in {"none", "sipmPower", "sipmTemp"}
    /\ dev.state \in {0, 1}
    /\ steps \in 0..MaxSteps
    /\ elapsed \in 0..MaxDt
    /\ pc.at \in {"idle", "sleep"}

----------------------------------------------------------------------------
\* Vocabulary of the properties (voltages in command units: PowerVolt per
\* volt for sipmPower, TempVolt per volt for sipmTemp)

Live == ctl.cls # "none"

MinV == IF ctl.cls = "sipmPower" THEN 0 ELSE 0 - 5 * TempVolt
MaxV == IF ctl.cls = "sipmPower" THEN 2 * PowerVolt ELSE 5 * TempVolt
StepLimit == IF ctl.cls = "sipmPower" THEN PowerVolt \div 2 ELSE 2 * TempVolt

Bounded(x, lo, hi) == IF x < lo THEN lo ELSE IF x > hi THEN hi ELSE x

\* a number inside [min_voltage, max_voltage]; NaN is inside no interval
InRange(v) == ~IsNaN(v) /\ v >= MinV /\ v <= MaxV

Ops(cs) == [k \in 1..Len(cs) |-> cs[k].op]

SetVArgs(cs) == {cs[k].arg : k \in {j \in 1..Len(cs) : cs[j].op = "set_V"}}

CountOp(cs, op, arg) == Cardinality({k \in 1..Len(cs) : cs[k] = Call(op, arg)})

PowerSequence(cs, commanded) ==
    /\ Len(cs) >= 4
    /\ cs[1] = Call("set_V", 0)
    /\ cs[2] = Call("set_state", commanded)
    /\ cs[3] = Call("sleep", 2)
    /\ cs[4].op = "check_state"

\* the step is part of a call of the method
Ran(name) == last_op'.name = name /\ Live

\* the step ends a call of the method, by a return or by its own error
Did(name) == Ran(name) /\ last_op'.result \in {"ok", "ValueError"}
DidOk(name) == Ran(name) /\ last_op'.result = "ok"

----------------------------------------------------------------------------
\* C1  Clamp invariant: every voltage an operation sends through set_V, and
\* the running command value new_voltage, lies within [min_voltage,
\* max_voltage]: [0, 2] V for sipmPower, [-5, 5] V for sipmTemp.
C1_ClampInvariant ==
    Live =>
        /\ InRange(ctl.new_voltage)
        /\ \A v \in SetVArgs(calls) : InRange(v)

\* a step of a powered controller was fed a not-a-number reading: the
\* safety check let the sum through, NaN was sent through set_V and is the
\* stored new_voltage
C1_Witness ==
    /\ Live
    /\ last_op.name = "compute_voltage" /\ last_op.result = "ok"
    /\ IsNaN(ctl.pid.last_input)
    /\ IsNaN(ctl.new_voltage)
    /\ calls[Len(calls)] = Call("set_V", NaN)

\* C2  Construction range check: a target inside [0, 2] W (sipmPower) or
\* [-35, 40] C (sipmTemp), bounds included, yields a controller; any other
\* target raises the range error and no controller exists.
C2_ConstructionRange ==
    last_op.name = "__init__" =>
        LET inside == IF last_op.cls = "sipmPower"
                        THEN last_op.arg >= 0 /\ last_op.arg <= 2000
                        ELSE last_op.arg >= 0 - 35 /\ last_op.arg <= 40
        IN  /\ inside => /\ last_op.result = "ok"
                         /\ ctl.cls = last_op.cls
                         /\ ctl.target = last_op.arg
            /\ ~inside => /\ last_op.result = "ValueError"
                          /\ ctl = [cls |-> "none"]
                          /\ calls = <<>>

C2_Witness ==
    /\ last_op.name = "__init__" /\ last_op.cls = "sipmTemp" /\ last_op.arg = 40
    /\ ctl.cls = "sipmTemp" /\ ctl.target = 40

\* C3  Idempotence of power transitions: power_on with state ON, and
\* power_off with state OFF, issue no instrument call and leave the
\* controller and the instrument unchanged.
C3_Idempotent ==
    [][/\ (Ran("power_on") /\ pc.at = "idle" /\ ctl.state = 1) =>
              (calls' = <<>> /\ ctl' = ctl /\ dev' = dev /\ last_op'.result = "ok")
       /\ (Ran("power_off") /\ pc.at = "idle" /\ ctl.state = 0) =>
              (calls' = <<>> /\ ctl' = ctl /\ dev' = dev /\ last_op'.result = "ok")]_vars

C3_Witness ==
    /\ Live /\ last_op.name = "power_on" /\ last_op.result = "ok" /\ calls = <<>>
    /\ ctl.state = 1 /\ ctl.new_voltage > 0

\* C4  Power-sequence failure: when the state re-read after the settle delay
\* is not the commanded one, the operation raises and the controller state is
\* the state the instrument reported.
C4_PowerSequenceFailure ==
    [][/\ (Did("power_on") /\ ctl.state = 0 /\ dev'.state = 0) =>
              (last_op'.result = "ValueError" /\ ctl'.state = 0)
       /\ (Did("power_off") /\ ctl.state = 1 /\ dev'.state # 0) =>
              (last_op'.result = "ValueError" /\ ctl'.state = dev'.state
                  /\ ctl'.state # 0)]_vars

C4_Witness ==
    /\ Live /\ last_op.name = "power_off" /\ last_op.result = "ValueError"
    /\ ctl.state = 1 /\ dev.state = 1

\* C5  Bias-power step result: the first PID evaluation of a sipmPower with
\* target T on inputs (I, V) sees P = V*I - I*I*1.2, returns 0.5*(T - P)
\* clamped to [-0.5, 0.5] V, and the step sends the previous command plus that
\* correction clamped to [0, 2] V.  T = 0.432, I = 0.2, V = 2.0, previous
\* command 0 gives P = 0.352, correction 0.04 V, command 0.04 V.
C5_PowerStep ==
    [][(DidOk("compute_voltage") /\ ctl.cls = "sipmPower" /\ ~ctl.pid.fed) =>
          LET I == ctl'.I
              V == ctl'.V
              T == ctl.target
              P == 10 * V * I - 12 * I * I
              corr == Bounded((T - P) * (PowerVolt \div 2000),
                              0 - PowerVolt \div 2, PowerVolt \div 2)
              cmd == Bounded(ctl.new_voltage + corr, 0, 2 * PowerVolt)
          IN  /\ ctl'.P = P
              /\ ctl'.pid.last_output = corr
              /\ ctl'.pid.d = 0
              /\ ctl'.new_voltage = cmd
              /\ calls'[Len(calls')] = Call("set_V", cmd)
              /\ dev'.V = cmd
              /\ (T = 432 /\ I = 2 /\ V = 20 /\ ctl.new_voltage = 0) =>
                     /\ P = 352
                     /\ corr = (4 * PowerVolt) \div 100
                     /\ cmd = (4 * PowerVolt) \div 100]_vars

C5_Witness ==
    /\ ctl.cls = "sipmPower" /\ ctl.target = 432 /\ steps = 1
    /\ last_op.name = "compute_voltage" /\ last_op.result = "ok"
    /\ ctl.I = 2 /\ ctl.V = 20 /\ ctl.P = 352
    /\ ctl.new_voltage = (4 * PowerVolt) \div 100
    /\ dev.V = (4 * PowerVolt) \div 100

\* C6  Temperature step direction: the first PID evaluation of a sipmTemp
\* with target T returns -0.25*(T - sensed) clamped to [-2, 2] V, positive
\* when the sensed temperature is above the target and negative when below;
\* T = 25, sensed = 30 gives a proportional term of +1.25 V and the command
\* clamp(previous + 1.25, -5, 5).
C6_TempStep ==
    [][(DidOk("compute_voltage") /\ ctl.cls = "sipmTemp" /\ ~ctl.pid.fed) =>
          LET T == ctl.target
              sensed == ctl'.sipm_temp
              corr == Bounded(0 - (T - sensed) * (TempVolt \div 4),
                              0 - 2 * TempVolt, 2 * TempVolt)
              cmd == Bounded(ctl.new_voltage + corr, 0 - 5 * TempVolt, 5 * TempVolt)
          IN  /\ ctl'.pid.last_output = corr
              /\ ctl'.new_voltage = cmd
              /\ dev'.V = cmd
              /\ sensed > T => (corr > 0 /\ cmd > ctl.new_voltage)
              /\ sensed < T => (corr < 0 /\ cmd < ctl.new_voltage)
              /\ (T = 25 /\ sensed = 30) =>
                     /\ ctl'.pid.p = (125 * TempVolt) \div 100
                     /\ cmd = Bounded(ctl.new_voltage + (125 * TempVolt) \div 100,
                                      0 - 5 * TempVolt, 5 * TempVolt)]_vars

C6_Witness ==
    /\ ctl.cls = "sipmTemp" /\ ctl.target = 25 /\ steps = 1
    /\ last_op.name = "compute_voltage" /\ last_op.result = "ok"
    /\ ctl.sipm_temp = 30
    /\ ctl.pid.p = (125 * TempVolt) \div 100
    /\ ctl.new_voltage = (125 * TempVolt) \div 100
    /\ dev.V = (125 * TempVolt) \div 100

\* C7  A step ensures power is ON, and a failed power-on is fatal without
\* retry: compute_voltage called with state OFF whose re-read is still OFF
\* raises after exactly one set_state(1), with the PID and the command value
\* untouched and no voltage sent other than the power-on 0 V; a step that
\* sends its command voltage ends with state ON.
C7_StepNeedsPower ==
    [][/\ Did("compute_voltage") =>
          /\ (ctl.state = 0 /\ dev'.state = 0) => last_op'.result = "ValueError"
          /\ last_op'.result = "ValueError" =>
                /\ ctl'.state = 0
                /\ CountOp(calls', "set_state", 1) = 1
                /\ Ops(calls') = <<"set_V", "set_state", "sleep", "check_state">>
                /\ calls'[1].arg = 0
                /\ ctl'.pid = ctl.pid
                /\ ctl'.new_voltage = ctl.new_voltage
          /\ last_op'.result = "ok" =>
                /\ ctl'.state # 0
                /\ calls'[Len(calls')] = Call("set_V", ctl'.new_voltage)
       /\ (Ran("compute_voltage") /\ last_op'.result \in {"running", "KeyboardInterrupt"}) =>
          /\ ctl' = ctl
          /\ SetVArgs(calls') = {0}]_vars

C7_Witness ==
    /\ Live /\ last_op.name = "compute_voltage" /\ last_op.result = "ValueError"
    /\ ctl.state = 0 /\ ctl.pid.fed /\ ctl.new_voltage > 0
    /\ dev.V = 0

\* C8  Ordering inside a power transition: power_on from OFF and power_off
\* from ON call set_V(0), set_state(commanded), the settle delay and one
\* check_state, in this order; every set_state in any operation directly
\* follows a set_V(0), and while the output stage has just been switched
\* the instrument's commanded voltage is 0.
C8_TransitionOrder ==
    [][/\ (Did("power_on") /\ ctl.state = 0) =>
              (PowerSequence(calls', 1) /\ Len(calls') = 4)
       /\ (Did("power_off") /\ ctl.state = 1) =>
              (PowerSequence(calls', 0) /\ Len(calls') = 4)
       /\ (Did("compute_voltage") /\ ctl.state = 0) => PowerSequence(calls', 1)
       /\ \A k \in 1..Len(calls') :
              /\ calls'[k].op = "set_state" =>
                    (k = 2 /\ calls'[1] = Call("set_V", 0))
              /\ calls'[k].op = "sleep" =>
                    (k = 3 /\ calls'[2].op = "set_state")
              /\ (calls'[k].op = "check_state" /\ last_op'.name # "__init__") =>
                    (k = 4 /\ calls'[3] = Call("sleep", 2))
       /\ pc'.at = "sleep" =>
              /\ Ops(calls') = <<"set_V", "set_state">>
              /\ calls'[2].arg = (IF pc'.name = "power_off" THEN 0 ELSE 1)
              /\ dev'.V = 0]_vars

C8_Witness ==
    /\ Live /\ last_op.name = "power_off" /\ last_op.result = "ok"
    /\ PowerSequence(calls, 0) /\ ctl.new_voltage > 0 /\ dev.V = 0

\* C9  The controller state mirrors the instrument and changes only in power
\* transitions: it is 0 or 1 and equals the latest check_state report; a
\* compute_voltage with state ON leaves it unchanged; it changes only in an
\* operation that ran a power sequence.
C9_StateMirrors ==
    [][/\ ctl'.cls # "none" =>
              (ctl'.state \in {0, 1} /\ ctl'.state = last_report')
       /\ (Ran("compute_voltage") /\ ctl.state = 1) =>
              (ctl'.state = 1 /\ last_report' = last_report)
       /\ (Live /\ ctl'.state # ctl.state) =>
              /\ last_op'.name \in {"power_on", "power_off", "compute_voltage"}
              /\ PowerSequence(calls', ctl'.state)
              /\ last_op'.name = "compute_voltage" => ctl.state = 0]_vars

C9_Witness ==
    /\ Live /\ last_op.name = "compute_voltage" /\ last_op.result = "ok"
    /\ Len(calls) > 4 /\ ctl.state = 1 /\ last_report = 1

\* C10  Power transitions keep the loop's working point: power_on and
\* power_off leave new_voltage and the PID state unchanged, and every step
\* commands clamp(previous command + correction, min_voltage, max_voltage),
\* also directly after a power cycle.
C10_WorkingPointKept ==
    [][/\ (Ran("power_on") \/ Ran("power_off")) =>
              (ctl'.new_voltage = ctl.new_voltage /\ ctl'.pid = ctl.pid)
       /\ DidOk("compute_voltage") =>
              LET cmd == Bounded(ctl.new_voltage + ctl'.pid.last_output, MinV, MaxV)
              IN  ctl'.new_voltage = cmd /\ dev'.V = cmd]_vars

\* a step that powered the output on (0 V) and then commanded a voltage
\* further from 0 V than one correction can reach
C10_Witness ==
    /\ Live /\ last_op.name = "compute_voltage" /\ last_op.result = "ok"
    /\ PowerSequence(calls, 1)
    /\ calls[Len(calls)].op = "set_V"
    /\ calls[Len(calls)].arg > StepLimit
    /\ calls[Len(calls)].arg <= MaxV

====
